---- MODULE Spec2Model ----
(***************************************************************************)
(* Model of rtwo/driver.py: the driver hierarchy LibcloudDriver, EshDriver, *)
(* OSDriver, AWSDriver and EucaDriver, driven by a single synchronous       *)
(* caller.  One action per driver method; every action runs the method to   *)
(* its return or to the exception it raises and records what the caller      *)
(* and the Connection saw of it.                                            *)
(***************************************************************************)
EXTENDS Integers, Sequences, FiniteSets, TLC

VARIABLES
    driver,        \* the driver object the caller holds (cls = "none": no driver)
    built,         \* the object the last __init__ worked on, handed over or not
    call,          \* the method call that has just completed: op, args, kwargs
    ret,           \* how it ended: outcome, exception, returned value
    connCalls,     \* the Connection primitives invoked during that call, in order
    convCalls,     \* the Provider conversion functions invoked during that call
    getDriverCalls,\* number of provider.get_driver calls during that call
    logged,        \* number of logger.error records written during that call
    defaultBlackList, \* the list object bound to filter_machines' default black_list=[]
    blackUsed      \* the black_list object of that call: its contents at entry and at exit

vars == <<driver, built, call, ret, connCalls, convCalls, getDriverCalls, logged,
          defaultBlackList, blackUsed>>

-----------------------------------------------------------------------------
(* Bounds of the model. *)

\* longest positional argument tuple a call is given
MaxArgs == 1
\* longest raw list a Connection listing returns
MaxRaw == 2
\* longest machine list handed to filter_machines
MaxMachines == 4
\* how many calls of filter_machines use the default black_list
MaxDefaultCalls == 2

-----------------------------------------------------------------------------
(* Values. *)

None == [cls |-> "None", user |-> "none"]

DriverClasses == {"LibcloudDriver", "EshDriver", "OSDriver", "AWSDriver", "EucaDriver"}

ProviderClasses == {"OSProvider", "AWSProvider", "EucaProvider"}

IdentityClasses == {"OSIdentity", "AWSIdentity", "EucaIdentity"}

\* identity.user is either a plain string or an object with a username field
UserKinds == {"str", "obj"}

Providers == {None} \cup {[cls |-> c, user |-> "none"] : c \in ProviderClasses}

Identities == {None} \cup {[cls |-> c, user |-> u] : c \in IdentityClasses, u \in UserKinds}

NoDriver == [cls |-> "none", provider |-> None, identity |-> None,
             open |-> FALSE,
             ex_force_service_region |-> "unset", service_region |-> "unset"]

EmptyKw == [k \in {} |-> ""]

\* a returned value: a boolean, a list, a single object, a method, or nothing
NoValue == [kind |-> "none", b |-> FALSE, items |-> <<>>]

BoolValue(b) == [kind |-> "bool", b |-> b, items |-> <<>>]

ListValue(items) == [kind |-> "list", b |-> FALSE, items |-> items]

ObjValue(x) == [kind |-> "obj", b |-> FALSE, items |-> <<x>>]

\* a bound method handed over uncalled, e.g. super(EshDriver, self).list_machines
MethodValue(name) == [kind |-> "method", b |-> FALSE, items |-> <<[wrap |-> "method", id |-> name]>>]

Raw(id) == [wrap |-> "raw", id |-> id]

Returned(v) == [outcome |-> "return", exc |-> "none", value |-> v]

Raised(e) == [outcome |-> "raise", exc |-> e, value |-> NoValue]

NoCall == [op |-> "none", args |-> <<>>, kwargs |-> EmptyKw]

NoBlack == [given |-> FALSE, atEntry |-> <<>>, atExit |-> <<>>]

NoRet == [outcome |-> "none", exc |-> "none", value |-> NoValue]

\* one invocation of a Connection primitive and how the primitive ended
ConnCall(name, args, kwargs, outcome, value) ==
    [name |-> name, args |-> args, kwargs |-> kwargs, outcome |-> outcome, value |-> value]

\* one invocation of a Provider conversion function and what it was handed
ConvCall(fn, arg) == [fn |-> fn, arg |-> arg]

\* a method run to its end: how it ended, the Connection and conversion calls
\* it made, and the logger.error records it wrote
Done(r, conn, conv, nlog) == [ret |-> r, conn |-> conn, conv |-> conv, logged |-> nlog]

\* kwargs.get(k): the value under k, or None (modelled as "") when absent
KwGet(kwargs, k) == IF k \in DOMAIN kwargs THEN kwargs[k] ELSE ""

\* kwargs.update({k: v})
KwUpdate(kwargs, k, v) == [x \in (DOMAIN kwargs) \cup {k} |-> IF x = k THEN v ELSE kwargs[x]]

\* kwargs.pop(k) for a key that is present
KwPop(kwargs, k) == [x \in (DOMAIN kwargs) \ {k} |-> kwargs[x]]

\* all tuples over S of length at most n
SeqsUpTo(S, n) == UNION {[1..k -> S] : k \in 0..n}

\* all tuples over S of length at most n without repeated elements
InjSeqsUpTo(S, n) == {s \in SeqsUpTo(S, n) : \A i, j \in 1..Len(s) : s[i] = s[j] => i = j}

-----------------------------------------------------------------------------
(* Construction: LibcloudDriver.__init__, EshDriver.__init__,               *)
(* OSDriver.__init__.                                                       *)

OPENSTACK_DEFAULT_REGION == "settings.OPENSTACK_DEFAULT_REGION"

\* providerCls / identityCls class attributes (None on the unspecialized classes)
ProviderCls(cls) ==
    CASE cls = "OSDriver" -> "OSProvider"
      [] cls = "AWSDriver" -> "AWSProvider"
      [] cls = "EucaDriver" -> "EucaProvider"
      [] OTHER -> "None"

IdentityCls(cls) ==
    CASE cls = "OSDriver" -> "OSIdentity"
      [] cls = "AWSDriver" -> "AWSIdentity"
      [] cls = "EucaDriver" -> "EucaIdentity"
      [] OTHER -> "None"

\* isinstance(x, c) over the provider and identity variants
IsInstance(x, c) == x.cls = c

\* a construction in progress: the exception raised so far (or "none"), the
\* number of get_driver calls, and the object's fields
Building(exc, n, d) == [exc |-> exc, getDriver |-> n, obj |-> d]

\* variant: the argument test with `and` for `or`
LibcloudInitMutant(cls, provider, identity) ==
    IF provider = None /\ identity = None
    THEN Building("MissingArgsException", 0, NoDriver)
    ELSE Building("none", 1,
                  [NoDriver EXCEPT !.cls = cls, !.identity = identity,
                                   !.provider = provider, !.open = TRUE])

LibcloudInit(cls, provider, identity) ==
    IF provider = None \/ identity = None
    THEN Building("MissingArgsException", 0, NoDriver)
    ELSE Building("none", 1,
                  [NoDriver EXCEPT !.cls = cls, !.identity = identity,
                                   !.provider = provider, !.open = TRUE])

\* variant: the type test passes when either argument is of the bound variant
EshInitMutant(cls, provider, identity) ==
    LET b == LibcloudInit(cls, provider, identity) IN
    IF b.exc # "none" THEN b
    ELSE IF ProviderCls(cls) = "None" THEN [b EXCEPT !.exc = "TypeError"]
    ELSE IF ~(IsInstance(provider, ProviderCls(cls)) \/ IsInstance(identity, IdentityCls(cls)))
         THEN [b EXCEPT !.exc = "ServiceException"]
         ELSE b

EshInit(cls, provider, identity) ==
    LET b == LibcloudInit(cls, provider, identity) IN
    IF b.exc # "none" THEN b
    \* isinstance(provider, None) raises TypeError
    ELSE IF ProviderCls(cls) = "None" THEN [b EXCEPT !.exc = "TypeError"]
    ELSE IF ~(IsInstance(provider, ProviderCls(cls)) /\ IsInstance(identity, IdentityCls(cls)))
         THEN [b EXCEPT !.exc = "ServiceException"]
         ELSE b

OSInit(cls, provider, identity) ==
    LET b == EshInit(cls, provider, identity) IN
    IF b.exc # "none" THEN b
    ELSE [b EXCEPT !.obj.ex_force_service_region = OPENSTACK_DEFAULT_REGION,
                   !.obj.service_region = OPENSTACK_DEFAULT_REGION]

\* cls(provider, identity): the __init__ the class resolves to
Init__(cls, provider, identity) ==
    CASE cls = "LibcloudDriver" -> LibcloudInit(cls, provider, identity)
      [] cls = "OSDriver" -> OSInit(cls, provider, identity)
      [] OTHER -> EshInit(cls, provider, identity)

Idle == call.op = "none"

Constructed(cls, provider, identity) ==
    LET b == Init__(cls, provider, identity) IN
    /\ call' = [op |-> "__init__", args |-> <<cls, provider.cls, identity.cls>>,
                kwargs |-> EmptyKw]
    /\ ret' = IF b.exc = "none" THEN Returned(NoValue) ELSE Raised(b.exc)
    \* a constructor that raises hands no object to the caller
    /\ driver' = IF b.exc = "none" THEN b.obj ELSE NoDriver
    /\ getDriverCalls' = b.getDriver
    /\ built' = b.obj
    /\ connCalls' = <<>>
    /\ convCalls' = <<>>
    /\ logged' = 0
    /\ blackUsed' = NoBlack
    /\ UNCHANGED defaultBlackList

\* cls(provider, identity), for every class and every pair of arguments
Construct ==
    /\ Idle
    /\ \E cls \in DriverClasses, provider \in Providers, identity \in Identities :
          Constructed(cls, provider, identity)

\* the caller takes the result; the next call starts with empty records
Return ==
    /\ ~Idle
    /\ call' = NoCall
    /\ ret' = NoRet
    /\ connCalls' = <<>>
    /\ convCalls' = <<>>
    /\ getDriverCalls' = 0
    /\ logged' = 0
    /\ built' = NoDriver
    /\ blackUsed' = NoBlack
    /\ UNCHANGED <<driver, defaultBlackList>>

\* completes a method call: records the call and everything it did
Complete(op, args, kwargs, d) ==
    /\ call' = [op |-> op, args |-> args, kwargs |-> kwargs]
    /\ ret' = d.ret
    /\ connCalls' = d.conn
    /\ convCalls' = d.conv
    /\ logged' = d.logged
    /\ getDriverCalls' = 0
    /\ UNCHANGED <<driver, built>>

-----------------------------------------------------------------------------
(* Inputs of the calls. *)

Instances == {"i1", "i2"}

\* instance._node
NodeOf(instance) == IF instance = "i1" THEN "node1" ELSE "node2"

ArgSeqs == SeqsUpTo(Instances, MaxArgs)

\* keyword arguments of the deploy family: 'deploy' absent, falsy or a plan;
\* 'ssh_key' and 'timeout' absent or given by the caller
DeployKwargs ==
    {kw \in UNION {[K -> {"", "plan", "/caller/id_rsa", "30"}] : K \in SUBSET {"deploy", "ssh_key", "timeout"}} :
        /\ "deploy" \in DOMAIN kw => kw["deploy"] \in {"", "plan"}
        /\ "ssh_key" \in DOMAIN kw => kw["ssh_key"] = "/caller/id_rsa"
        /\ "timeout" \in DOMAIN kw => kw["timeout"] = "30"}

\* keyword arguments of the other calls: none, or one
PlainKwargs == {EmptyKw, [k \in {"name"} |-> "data"]}

\* how a Connection primitive ends: normally, or raising
DeployOutcomes == {"ok", "DeploymentError", "TransportError"}

PrimOutcomes == {"ok", "TransportError"}

\* a Connection primitive invoked with (args, kwargs) that ends as `outcome`
Primitive(name, args, kwargs, outcome, value) ==
    Done(IF outcome = "ok" THEN Returned(value) ELSE Raised(outcome),
         <<ConnCall(name, args, kwargs, outcome,
                    IF outcome = "ok" THEN value ELSE NoValue)>>, <<>>, 0)

private_key == "/opt/dev/atmosphere/extras/ssh/id_rsa"

-----------------------------------------------------------------------------
(* OSDriver: deploy_init_to, deploy_to, deploy_instance.                    *)

\* variant: args[0] is read without the test for an empty args
OSDeployToMutant(identity, args, kwargs, outcome) ==
    IF args = <<>> THEN Done(Raised("IndexError"), <<>>, <<>>, 0)
    ELSE IF KwGet(kwargs, "deploy") = ""
    THEN Done(Raised("MissingArgsException"), <<>>, <<>>, 0)
    ELSE IF identity.user # "obj" THEN Done(Raised("AttributeError"), <<>>, <<>>, 0)
    ELSE Primitive("ex_deploy_to_node", <<NodeOf(args[1])>> \o args, kwargs, outcome,
                   BoolValue(TRUE))

OSDeployTo(identity, args, kwargs, outcome) ==
    IF args = <<>> THEN Done(Raised("MissingArgsException"), <<>>, <<>>, 0)
    ELSE IF KwGet(kwargs, "deploy") = ""
    THEN Done(Raised("MissingArgsException"), <<>>, <<>>, 0)
    ELSE
      LET kw1 == IF KwGet(kwargs, "ssh_key") = ""
                 THEN KwUpdate(kwargs, "ssh_key", private_key) ELSE kwargs
          kw2 == IF KwGet(kw1, "timeout") = ""
                 THEN KwUpdate(kw1, "timeout", "120") ELSE kw1
          p == Primitive("ex_deploy_to_node", <<NodeOf(args[1])>> \o args, kw2, outcome,
                         BoolValue(TRUE))
      IN  \* username = self.identity.user.username
          IF identity.user # "obj" THEN Done(Raised("AttributeError"), <<>>, <<>>, 0)
          ELSE p

OSDeployInitTo(identity, args, kwargs, outcome) ==
    IF args = <<>> THEN Done(Raised("MissingArgsException"), <<>>, <<>>, 0)
    ELSE
      \* the username is resolved for a plain string and for a user object alike
      LET kw1 == KwUpdate(kwargs, "deploy", "MultiStepDeployment5")
          kw2 == KwUpdate(kw1, "ssh_key", private_key)
          kw3 == KwUpdate(kw2, "timeout", "120")
      IN  OSDeployTo(identity, <<args[1]>> \o args, kw3, outcome)

\* self.deploy_node(*args, **kwargs): the Connection's blocking create+deploy
DeployNode(args, kwargs, outcome) ==
    Primitive("deploy_node", args, kwargs, outcome, ObjValue(Raw("node")))

OSDeployInstance(identity, args, kwargs, outcome) ==
    IF KwGet(kwargs, "deploy") = ""
    THEN Done(Raised("MissingArgsException"), <<>>, <<>>, 0)
    \* username = self.identity.user.username
    ELSE IF identity.user # "obj" THEN Done(Raised("AttributeError"), <<>>, <<>>, 0)
    ELSE
      LET kw1 == KwUpdate(kwargs, "ssh_key", private_key)
          kw2 == KwUpdate(kw1, "timeout", "120")
          p == DeployNode(args, kw2, outcome)
      IN  IF p.ret.exc = "DeploymentError"
          THEN Done(Returned(BoolValue(FALSE)), p.conn, p.conv, 2)
          ELSE IF p.ret.outcome = "raise" THEN p
          ELSE Done(Returned(BoolValue(TRUE)), p.conn, p.conv, 0)

-----------------------------------------------------------------------------
(* deploy_instance of the other classes.                                    *)

LibcloudDeployInstance(args, kwargs, outcome) ==
    Primitive("deploy_node", args, kwargs, outcome, ObjValue(Raw("node")))

\* provider.instanceCls(node): the node wrapped as an Instance
InstanceCls(node) == [wrap |-> "Instance", id |-> node.id]

EshDeployInstance(args, kwargs, outcome) ==
    LET p == LibcloudDeployInstance(args, kwargs, outcome) IN
    IF p.ret.outcome = "raise" THEN p
    ELSE Done(Returned(ObjValue(InstanceCls(p.ret.value.items[1]))), p.conn,
              <<ConvCall("instanceCls", p.ret.value)>>, 0)

\* variant: DeploymentError caught and turned into False, as OSDriver does
AWSDeployInstanceMutant(identity, args, kwargs, outcome, createdOk) ==
    IF identity.user # "obj" THEN Done(Raised("AttributeError"), <<>>, <<>>, 0)
    ELSE
      LET kw1 == KwUpdate(kwargs, "ex_keyname", "dalloway-key")
          kw2 == KwUpdate(kw1, "ssh_username", "ubuntu")
          kw3 == KwUpdate(kw2, "ssh_key", private_key)
          kw4 == KwUpdate(kw3, "deploy", "MultiStepDeployment4")
          kw5 == KwUpdate(kw4, "timeout", "400")
          p == EshDeployInstance(args, kw5, outcome)
      IN  IF p.ret.exc = "DeploymentError"
          THEN Done(Returned(BoolValue(FALSE)), p.conn, p.conv, 2)
          ELSE IF p.ret.outcome = "raise" THEN p
          ELSE IF ~createdOk THEN Done(Raised("ValueError"), p.conn, p.conv, 0)
          ELSE p

AWSDeployInstance(identity, args, kwargs, outcome, createdOk) ==
    \* username = self.identity.user.username
    IF identity.user # "obj" THEN Done(Raised("AttributeError"), <<>>, <<>>, 0)
    ELSE
      LET kw1 == KwUpdate(kwargs, "ex_keyname", "dalloway-key")
          kw2 == KwUpdate(kw1, "ssh_username", "ubuntu")
          kw3 == KwUpdate(kw2, "ssh_key", private_key)
          kw4 == KwUpdate(kw3, "deploy", "MultiStepDeployment4")
          kw5 == KwUpdate(kw4, "timeout", "400")
          p == EshDeployInstance(args, kw5, outcome)
      IN  IF p.ret.outcome = "raise" THEN p
          \* datetime.strptime(instance.extra['created'], "%Y-%m-%dT%H:%M:%SZ")
          ELSE IF ~createdOk THEN Done(Raised("ValueError"), p.conn, p.conv, 0)
          ELSE p

\* variant: deploy_instance not overridden, so EshDriver's is inherited
EucaDeployInstanceMutant(args, kwargs, outcome) == EshDeployInstance(args, kwargs, outcome)

EucaDeployInstance(args, kwargs, outcome) ==
    Done(Raised("NotImplementedError"), <<>>, <<>>, 0)

-----------------------------------------------------------------------------
(* start_instance, stop_instance, suspend_instance, resume_instance.        *)

LifecycleOps == {"start_instance", "stop_instance", "suspend_instance", "resume_instance"}

\* the OpenStack extension primitive behind each operation
ExPrimitive(op) ==
    CASE op = "start_instance" -> "ex_start_node"
      [] op = "stop_instance" -> "ex_stop_node"
      [] op = "suspend_instance" -> "ex_suspend_node"
      [] op = "resume_instance" -> "ex_resume_node"

\* BaseDriver's default, reached through EshDriver's super() calls
BaseLifecycle(op, args, kwargs, outcome) ==
    Done(Raised("NotImplementedError"), <<>>, <<>>, 0)

OSLifecycle(op, args, kwargs, outcome) ==
    Primitive(ExPrimitive(op), args, kwargs, outcome, BoolValue(TRUE))

EucaLifecycle(op, args, kwargs, outcome) ==
    Done(Raised("NotImplementedError"), <<>>, <<>>, 0)

-----------------------------------------------------------------------------
(* The calls as actions. *)

HasDriver(cls) == Idle /\ driver.cls = cls

DeployInitTo ==
    /\ HasDriver("OSDriver")
    /\ \E args \in ArgSeqs, kwargs \in DeployKwargs, outcome \in DeployOutcomes :
          Complete("deploy_init_to", args, kwargs,
                   OSDeployInitTo(driver.identity, args, kwargs, outcome))
    /\ blackUsed' = NoBlack
    /\ UNCHANGED defaultBlackList

DeployTo ==
    /\ HasDriver("OSDriver")
    /\ \E args \in ArgSeqs, kwargs \in DeployKwargs, outcome \in DeployOutcomes :
          Complete("deploy_to", args, kwargs,
                   OSDeployTo(driver.identity, args, kwargs, outcome))
    /\ blackUsed' = NoBlack
    /\ UNCHANGED defaultBlackList

DeployInstance ==
    /\ Idle
    /\ driver.cls # "none"
    /\ \E args \in ArgSeqs, kwargs \in DeployKwargs, outcome \in DeployOutcomes,
          createdOk \in BOOLEAN :
          Complete("deploy_instance", args, kwargs,
                   CASE driver.cls = "OSDriver" ->
                          OSDeployInstance(driver.identity, args, kwargs, outcome)
                     [] driver.cls = "AWSDriver" ->
                          AWSDeployInstance(driver.identity, args, kwargs, outcome, createdOk)
                     [] driver.cls = "EucaDriver" ->
                          EucaDeployInstance(args, kwargs, outcome)
                     [] OTHER -> LibcloudDeployInstance(args, kwargs, outcome))
    /\ blackUsed' = NoBlack
    /\ UNCHANGED defaultBlackList

Lifecycle ==
    /\ Idle
    /\ driver.cls # "none"
    /\ \E op \in LifecycleOps, args \in ArgSeqs, kwargs \in PlainKwargs,
          outcome \in PrimOutcomes :
          Complete(op, args, kwargs,
                   CASE driver.cls = "OSDriver" -> OSLifecycle(op, args, kwargs, outcome)
                     [] driver.cls = "EucaDriver" -> EucaLifecycle(op, args, kwargs, outcome)
                     [] OTHER -> BaseLifecycle(op, args, kwargs, outcome))
    /\ blackUsed' = NoBlack
    /\ UNCHANGED defaultBlackList

-----------------------------------------------------------------------------
(* OSDriver._is_active_instance.                                            *)

Statuses == {"active", "build", "resize", "suspended", "error"}

Tasks == {"none", "deleting", "suspending", "spawning", "running"}

Powers == {"on", "off"}

\* variant: the build/resize branch also rejects task 'suspending'
IsActiveInstanceMutant(status, task, power) ==
    IF status = "active"
    THEN task \notin {"deleting", "suspending"}
    ELSE (status = "build" \/ status = "resize") /\ task \notin {"deleting", "suspending"}

\* instance.extra['status'], ['task'] and ['power'] are read; power is not used
IsActiveInstance(status, task, power) ==
    IF status = "active"
    THEN task \notin {"deleting", "suspending"}
    ELSE (status = "build" \/ status = "resize") /\ task # "deleting"

IsActive ==
    /\ HasDriver("OSDriver")
    /\ \E status \in Statuses, task \in Tasks, power \in Powers :
          Complete("_is_active_instance", <<status, task, power>>, EmptyKw,
                   Done(Returned(BoolValue(IsActiveInstance(status, task, power))),
                        <<>>, <<>>, 0))
    /\ blackUsed' = NoBlack
    /\ UNCHANGED defaultBlackList

-----------------------------------------------------------------------------
(* list_instances, list_machines, list_sizes, list_volumes.                 *)

ListOps == {"list_instances", "list_machines", "list_sizes", "list_volumes"}

ListArgs == SeqsUpTo({"x"}, MaxArgs)

RawLists == SeqsUpTo({Raw("r1"), Raw("r2")}, MaxRaw)

\* the Connection listing behind each operation
ListPrimitive(op) ==
    CASE op = "list_instances" -> "list_nodes"
      [] op = "list_machines" -> "list_images"
      [] op = "list_sizes" -> "list_sizes"
      [] op = "list_volumes" -> "list_volumes"

\* only list_volumes forwards the caller's arguments to the Connection
LibcloudList(op, args, kwargs, raw, outcome) ==
    IF op = "list_volumes"
    THEN Primitive(ListPrimitive(op), args, kwargs, outcome, ListValue(raw))
    ELSE Primitive(ListPrimitive(op), <<>>, EmptyKw, outcome, ListValue(raw))

\* the Provider's conversion function behind each operation
ConvFunction(op) ==
    CASE op = "list_instances" -> "instanceCls.get_instances"
      [] op = "list_machines" -> "machineCls.get_machines"
      [] op = "list_sizes" -> "sizeCls.get_sizes"
      [] op = "list_volumes" -> "volumeCls.get_volumes"

DomainCls(op) ==
    CASE op = "list_instances" -> "Instance"
      [] op = "list_machines" -> "Machine"
      [] op = "list_sizes" -> "Size"
      [] op = "list_volumes" -> "Volume"

WrapAll(cls, raw) == [i \in 1..Len(raw) |-> [wrap |-> cls, id |-> raw[i].id]]

\* a conversion function handed a raw list wraps each element
ConvertList(op, p) ==
    IF p.ret.outcome = "raise" THEN p
    ELSE Done(Returned(ListValue(WrapAll(DomainCls(op), p.ret.value.items))), p.conn,
              <<ConvCall(ConvFunction(op), p.ret.value)>>, 0)

\* a conversion function handed a listing method calls it and wraps each element
ConvertMethod(op, p) ==
    IF p.ret.outcome = "raise"
    THEN Done(p.ret, p.conn, <<ConvCall(ConvFunction(op), MethodValue(op))>>, 0)
    ELSE Done(Returned(ListValue(WrapAll(DomainCls(op), p.ret.value.items))), p.conn,
              <<ConvCall(ConvFunction(op), MethodValue(op))>>, 0)

\* variant: list_machines and list_sizes call the listing and hand its result over
EshListMutant(op, args, kwargs, raw, outcome) ==
    IF op \in {"list_machines", "list_sizes"}
    THEN ConvertList(op, LibcloudList(op, <<>>, EmptyKw, raw, outcome))
    ELSE ConvertList(op, LibcloudList(op, args, kwargs, raw, outcome))

\* list_instances and list_volumes call the generic listing and hand its result
\* over; list_machines and list_sizes hand over the generic listing method itself
EshList(op, args, kwargs, raw, outcome) ==
    IF op \in {"list_machines", "list_sizes"}
    THEN ConvertMethod(op, LibcloudList(op, <<>>, EmptyKw, raw, outcome))
    ELSE ConvertList(op, LibcloudList(op, args, kwargs, raw, outcome))

List ==
    /\ Idle
    /\ driver.cls # "none"
    /\ \E op \in ListOps, args \in ListArgs, kwargs \in PlainKwargs, raw \in RawLists,
          outcome \in PrimOutcomes :
          Complete(op, args, kwargs,
                   IF driver.cls = "LibcloudDriver"
                   THEN LibcloudList(op, args, kwargs, raw, outcome)
                   ELSE EshList(op, args, kwargs, raw, outcome))
    /\ blackUsed' = NoBlack
    /\ UNCHANGED defaultBlackList

-----------------------------------------------------------------------------
(* create_volume.                                                           *)

VolumeArgs == SeqsUpTo({"10", "vol"}, MaxArgs)

VolumeKwargs ==
    {[k \in K |-> IF k = "description" THEN "a volume" ELSE "data"] :
        K \in SUBSET {"description", "name"}}

LibcloudCreateVolume(args, kwargs, outcome) ==
    Primitive("create_volume", args, kwargs, outcome, ObjValue(Raw("volume")))

\* variant: 'description' is not removed
AWSCreateVolumeMutant(args, kwargs, outcome) == LibcloudCreateVolume(args, kwargs, outcome)

AWSCreateVolume(args, kwargs, outcome) ==
    LibcloudCreateVolume(args,
                         IF "description" \in DOMAIN kwargs
                         THEN KwPop(kwargs, "description") ELSE kwargs,
                         outcome)

CreateVolume ==
    /\ Idle
    /\ driver.cls # "none"
    /\ \E args \in VolumeArgs, kwargs \in VolumeKwargs, outcome \in PrimOutcomes :
          Complete("create_volume", args, kwargs,
                   IF driver.cls = "AWSDriver"
                   THEN AWSCreateVolume(args, kwargs, outcome)
                   ELSE LibcloudCreateVolume(args, kwargs, outcome))
    /\ blackUsed' = NoBlack
    /\ UNCHANGED defaultBlackList

-----------------------------------------------------------------------------
(* AWSDriver.filter_machines.                                               *)

\* a string as the tuple of its characters
Chars(s) ==
    CASE s = "bitnami" -> <<"b", "i", "t", "n", "a", "m", "i">>
      [] s = "kernel" -> <<"k", "e", "r", "n", "e", "l">>
      [] s = "microsoft" -> <<"m", "i", "c", "r", "o", "s", "o", "f", "t">>
      [] s = "Windows" -> <<"W", "i", "n", "d", "o", "w", "s">>
      [] s = "aki-" -> <<"a", "k", "i", "-">>
      [] s = "ari-" -> <<"a", "r", "i", "-">>
      [] s = "aki-1" -> <<"a", "k", "i", "-", "1">>
      [] s = "ari-2" -> <<"a", "r", "i", "-", "2">>
      [] s = "m1" -> <<"m", "1">>
      [] s = "aki-x" -> <<"a", "k", "i", "-", "x">>
      [] s = "ari-5" -> <<"a", "r", "i", "-", "5">>
      [] s = "aki-7" -> <<"a", "k", "i", "-", "7">>
      [] s = "m2" -> <<"m", "2">>
      [] s = "image" -> <<"i", "m", "a", "g", "e">>
      [] s = "kernel-3" -> <<"k", "e", "r", "n", "e", "l", "-", "3">>
      [] s = "none" -> <<"n", "o", "n", "e">>
      [] s = "amazon" -> <<"a", "m", "a", "z", "o", "n">>
      [] s = "aws-marketplace" -> <<"a", "w", "s", "-", "m", "a", "r", "k", "e", "t", "p", "l", "a", "c", "e">>

\* Python's `word in s` on strings: word occurs in s as a substring
Contains(word, s) ==
    LET w == Chars(word)
        t == Chars(s)
    IN  \E k \in 0..(Len(t) - Len(w)) : \A i \in 1..Len(w) : t[k + i] = w[i]

MachineIds == {"A", "B", "C", "D", "E", "F", "G"}

\* the machines of the model: alias, name and _image.extra of each
Machine(id) ==
    CASE id = "A" -> [alias |-> "aki-1", name |-> "image", ownerid |-> "099720109477", owneralias |-> "none"]
      [] id = "B" -> [alias |-> "ari-2", name |-> "image", ownerid |-> "111", owneralias |-> "amazon"]
      [] id = "C" -> [alias |-> "m1", name |-> "kernel-3", ownerid |-> "999", owneralias |-> "none"]
      [] id = "D" -> [alias |-> "aki-x", name |-> "image", ownerid |-> "999", owneralias |-> "bitnami"]
      [] id = "E" -> [alias |-> "ari-5", name |-> "image", ownerid |-> "099720109477", owneralias |-> "aws-marketplace"]
      [] id = "F" -> [alias |-> "aki-7", name |-> "image", ownerid |-> "999", owneralias |-> "none"]
      [] id = "G" -> [alias |-> "m2", name |-> "image", ownerid |-> "099720109477", owneralias |-> "amazon"]

\* the machine lists of the model: no machine listed twice
MachineLists == InjSeqsUpTo(MachineIds, MaxMachines)

\* the lists a caller passes as black_list
CallerTerms == {<<>>, <<"aki-1">>}

FixedBlackList == <<"bitnami", "kernel", "microsoft", "Windows">>

Range(s) == {s[i] : i \in 1..Len(s)}

\* _filter_machines(ms, cond) with cond given as the set of machines it keeps
Keep(ms, kept) == SelectSeq(ms, LAMBDA m : m \in kept)

\* a machine matches a block-list when one of its words occurs in the machine's
\* metadata
MatchesBlackList(m, words) ==
    \E word \in words :
        \/ Contains(word, Machine(m).name)
        \/ Contains(word, Machine(m).alias)
        \/ Contains(word, Machine(m).owneralias)

\* the inherited filter_machines: keeps the machines that do not match the
\* block-list
InheritedFilterMachines(ms, blackList) ==
    Keep(ms, {m \in MachineIds : ~MatchesBlackList(m, Range(blackList))})

AliasStage(ms) ==
    Keep(ms, {m \in MachineIds : \E word \in {"aki-", "ari-"} : Contains(word, Machine(m).alias)})

UbuntuStage(ms) ==
    Keep(ms, {m \in MachineIds : \E word \in {"099720109477"} : word = Machine(m).ownerid})

AmazonStage(ms) ==
    Keep(ms, {m \in MachineIds :
                \E word \in {"amazon", "aws-marketplace"} : word = Machine(m).owneralias})

\* variant: the owner stages filter the list from before the alias stage
AWSFilterMachinesMutant(machines, blackList) ==
    LET extended == blackList \o FixedBlackList
        filtered == InheritedFilterMachines(machines, extended)
    IN  [result |-> UbuntuStage(filtered) \o AmazonStage(filtered), blackList |-> extended]

\* the result, and the black_list object as black_list.extend leaves it
AWSFilterMachines(machines, blackList) ==
    LET extended == blackList \o FixedBlackList
        filtered == InheritedFilterMachines(machines, extended)
        aliased == AliasStage(filtered)
    IN  [result |-> UbuntuStage(aliased) \o AmazonStage(aliased), blackList |-> extended]

AsValues(ms) == [i \in 1..Len(ms) |-> [wrap |-> "Machine", id |-> ms[i]]]

FilterDone(machines, f) ==
    Complete("filter_machines", machines, EmptyKw,
             Done(Returned(ListValue(AsValues(f.result))), <<>>, <<>>, 0))

\* filter_machines(machines): black_list is the default's list object
FilterMachinesDefault ==
    /\ HasDriver("AWSDriver")
    /\ Len(defaultBlackList) < Len(FixedBlackList) * MaxDefaultCalls
    /\ \E machines \in MachineLists :
          LET f == AWSFilterMachines(machines, defaultBlackList) IN
          /\ FilterDone(machines, f)
          /\ blackUsed' = [given |-> FALSE, atEntry |-> defaultBlackList,
                           atExit |-> f.blackList]
          /\ defaultBlackList' = f.blackList

\* filter_machines(machines, terms): black_list is a list object of the caller
FilterMachinesGiven ==
    /\ HasDriver("AWSDriver")
    /\ \E machines \in MachineLists, terms \in CallerTerms :
          LET f == AWSFilterMachines(machines, terms) IN
          /\ FilterDone(machines, f)
          /\ blackUsed' = [given |-> TRUE, atEntry |-> terms, atExit |-> f.blackList]
    /\ UNCHANGED defaultBlackList

Init ==
    /\ driver = NoDriver
    /\ built = NoDriver
    /\ call = NoCall
    /\ ret = NoRet
    /\ connCalls = <<>>
    /\ convCalls = <<>>
    /\ getDriverCalls = 0
    /\ logged = 0
    /\ defaultBlackList = <<>>
    /\ blackUsed = NoBlack

Next ==
    \/ Construct
    \/ DeployInitTo
    \/ DeployTo
    \/ DeployInstance
    \/ Lifecycle
    \/ IsActive
    \/ List
    \/ CreateVolume
    \/ FilterMachinesDefault
    \/ FilterMachinesGiven
    \/ Return

Spec == Init /\ [][Next]_vars

-----------------------------------------------------------------------------
(* The claims. *)

IsCall(op) == call.op = op

\* the constructor call that has just completed, by its arguments
CtorCls == call.args[1]

CtorProvider == call.args[2]

CtorIdentity == call.args[3]

SpecializedDrivers == {"OSDriver", "AWSDriver", "EucaDriver"}

\* C1: constructing any driver class with provider = None or identity = None
\* raises MissingArgsException; provider.get_driver is not called, no
\* connection is opened and no driver is handed to the caller.
C1_MissingArgsOnConstruction ==
    (IsCall("__init__") /\ (CtorProvider = "None" \/ CtorIdentity = "None"))
        => /\ ret = Raised("MissingArgsException")
           /\ getDriverCalls = 0
           /\ built.open = FALSE
           /\ driver = NoDriver

C1_Witness ==
    /\ IsCall("__init__")
    /\ CtorCls = "OSDriver"
    /\ CtorProvider = "OSProvider"
    /\ CtorIdentity = "None"
    /\ ret.exc = "MissingArgsException"

\* the provider and identity variant each specialized driver is bound to
C2_Bound(cls, providerCls, identityCls) ==
    \/ cls = "OSDriver" /\ providerCls = "OSProvider" /\ identityCls = "OSIdentity"
    \/ cls = "AWSDriver" /\ providerCls = "AWSProvider" /\ identityCls = "AWSIdentity"
    \/ cls = "EucaDriver" /\ providerCls = "EucaProvider" /\ identityCls = "EucaIdentity"

\* C2: constructing a specialized driver with a provider and an identity that
\* are both given but are not both of the variant the driver is bound to
\* raises ServiceException and hands no driver to the caller; for OSDriver the
\* two region fields of the connection are left unassigned.
C2_TypeMismatchOnConstruction ==
    (/\ IsCall("__init__")
     /\ CtorCls \in SpecializedDrivers
     /\ CtorProvider # "None" /\ CtorIdentity # "None"
     /\ ~C2_Bound(CtorCls, CtorProvider, CtorIdentity))
        => /\ ret = Raised("ServiceException")
           /\ driver = NoDriver
           /\ built.ex_force_service_region = "unset"
           /\ built.service_region = "unset"

C2_Witness ==
    /\ IsCall("__init__")
    /\ CtorCls = "OSDriver"
    /\ CtorProvider = "OSProvider"
    /\ CtorIdentity = "AWSIdentity"
    /\ ret.exc = "ServiceException"
    /\ built.open

DeployFamily == {"deploy_to", "deploy_init_to", "deploy_instance"}

HasDeployPlan == KwGet(call.kwargs, "deploy") # ""

\* C3 as stated: on the OpenStack driver each of deploy_to, deploy_init_to and
\* deploy_instance, called with no positional argument, raises
\* MissingArgsException and invokes no Connection method, whatever the
\* keyword arguments.
C3_Original ==
    (driver.cls = "OSDriver" /\ call.op \in DeployFamily /\ call.args = <<>>)
        => (ret = Raised("MissingArgsException") /\ connCalls = <<>>)

\* C3 as amended: deploy_to and deploy_init_to called with no positional
\* argument raise MissingArgsException and invoke no Connection method,
\* whatever the keyword arguments; deploy_instance takes no instance: it raises
\* MissingArgsException exactly when no truthy 'deploy' is given, positional
\* arguments or not, and then invokes no Connection method.
C3_MissingInstance ==
    /\ (driver.cls = "OSDriver" /\ call.op \in {"deploy_to", "deploy_init_to"}
        /\ call.args = <<>>)
          => (ret = Raised("MissingArgsException") /\ connCalls = <<>>)
    /\ (driver.cls = "OSDriver" /\ IsCall("deploy_instance"))
          => /\ (ret.exc = "MissingArgsException") <=> ~HasDeployPlan
             /\ (ret.exc = "MissingArgsException") => connCalls = <<>>

C3_Witness ==
    /\ driver.cls = "OSDriver"
    /\ IsCall("deploy_to")
    /\ call.args = <<>>
    /\ HasDeployPlan
    /\ ret.exc = "MissingArgsException"

EucaUnsupported ==
    {"deploy_instance", "start_instance", "stop_instance", "suspend_instance",
     "resume_instance"}

\* C4: on a Eucalyptus driver every call of deploy_instance, start_instance,
\* stop_instance, suspend_instance or resume_instance ends with
\* NotImplementedError and invokes no primitive of the Connection.
C4_EucaUnsupported ==
    (driver.cls = "EucaDriver" /\ call.op \in EucaUnsupported)
        => (ret = Raised("NotImplementedError") /\ connCalls = <<>>)

C4_Witness ==
    /\ driver.cls = "EucaDriver"
    /\ IsCall("deploy_instance")
    /\ HasDeployPlan
    /\ call.args # <<>>
    /\ ret.exc = "NotImplementedError"

\* the invocations of the named Connection primitive during the call
Invocations(name) == {i \in 1..Len(connCalls) : connCalls[i].name = name}

PrimitiveEnded(name, outcome) ==
    \E i \in Invocations(name) : connCalls[i].outcome = outcome

\* C5 as stated: OpenStack deploy_instance called with a 'deploy' plan invokes
\* the create+deploy primitive exactly once; when the primitive raises
\* DeploymentError the call returns False and logs the failure, when it
\* returns normally the call returns True.
C5_Original ==
    (driver.cls = "OSDriver" /\ IsCall("deploy_instance") /\ HasDeployPlan)
        => /\ Cardinality(Invocations("deploy_node")) = 1
           /\ PrimitiveEnded("deploy_node", "DeploymentError")
                => (ret = Returned(BoolValue(FALSE)) /\ logged > 0)
           /\ PrimitiveEnded("deploy_node", "ok") => ret = Returned(BoolValue(TRUE))

\* C6 as stated: when the inherited create+deploy call raises DeploymentError,
\* AWS deploy_instance catches it, logs it and returns False.
C6_Original ==
    (driver.cls = "AWSDriver" /\ IsCall("deploy_instance")
     /\ PrimitiveEnded("deploy_node", "DeploymentError"))
        => (ret = Returned(BoolValue(FALSE)) /\ logged > 0)

\* C6 as amended: when the inherited create+deploy call raises
\* DeploymentError, AWS deploy_instance does not catch it: the error reaches
\* the caller, nothing is logged as an error and nothing is returned.
C6_DeploymentErrorPropagates ==
    (driver.cls = "AWSDriver" /\ IsCall("deploy_instance")
     /\ PrimitiveEnded("deploy_node", "DeploymentError"))
        => (ret = Raised("DeploymentError") /\ logged = 0)

C6_Witness ==
    /\ driver.cls = "AWSDriver"
    /\ IsCall("deploy_instance")
    /\ PrimitiveEnded("deploy_node", "DeploymentError")
    /\ ret.outcome = "raise"

\* the words AWS filter_machines is said to block: the caller's plus the fixed four
C7_BlockWords ==
    (IF blackUsed.given THEN Range(blackUsed.atEntry) ELSE {})
        \cup {"bitnami", "kernel", "microsoft", "Windows"}

C7_Survivor(m) ==
    /\ ~MatchesBlackList(m, C7_BlockWords)
    /\ Contains("aki-", Machine(m).alias) \/ Contains("ari-", Machine(m).alias)

C7_OwnerId(m) == C7_Survivor(m) /\ Machine(m).ownerid = "099720109477"

C7_OwnerAlias(m) == C7_Survivor(m) /\ Machine(m).owneralias \in {"amazon", "aws-marketplace"}

\* C7: AWS filter_machines returns, of the machines that survive the
\* block-list (caller terms plus the fixed four) and whose alias contains
\* 'aki-' or 'ari-', first those whose owner id is 099720109477 and then those
\* whose owner alias is amazon or aws-marketplace, each group in input order;
\* every other machine is left out.
C7_FilterMachines ==
    (driver.cls = "AWSDriver" /\ IsCall("filter_machines"))
        => ret = Returned(ListValue(AsValues(SelectSeq(call.args, C7_OwnerId)
                                             \o SelectSeq(call.args, C7_OwnerAlias))))

C7_Witness ==
    /\ driver.cls = "AWSDriver"
    /\ IsCall("filter_machines")
    /\ call.args = <<"A", "B", "C", "D">>
    /\ ret = Returned(ListValue(AsValues(<<"A", "B">>)))

C8_Status == call.args[1]

C8_Task == call.args[2]

\* the predicate of (status, task) the claim gives
C8_Active ==
    \/ C8_Status = "active" /\ C8_Task # "deleting" /\ C8_Task # "suspending"
    \/ C8_Status \in {"build", "resize"} /\ C8_Task # "deleting"

\* C8: OpenStack _is_active_instance returns true exactly when status is
\* 'active' and task is neither 'deleting' nor 'suspending', or status is
\* 'build' or 'resize' and task is not 'deleting'; it returns false otherwise,
\* whatever the power field, reaches no Connection primitive and leaves the
\* driver as it was.
C8_IsActiveInstance ==
    /\ [](IsCall("_is_active_instance")
            => (ret = Returned(BoolValue(C8_Active)) /\ connCalls = <<>>))
    /\ [][IsCall("_is_active_instance")' => (driver' = driver
                                             /\ defaultBlackList' = defaultBlackList)]_vars

C8_Witness ==
    /\ IsCall("_is_active_instance")
    /\ C8_Status = "resize"
    /\ C8_Task = "suspending"
    /\ ret = Returned(BoolValue(TRUE))

\* the one Connection listing of the call returned this raw list
C9_RawListed == Len(connCalls) = 1 /\ connCalls[1].name = ListPrimitive(call.op)

C9_Generic ==
    (driver.cls = "LibcloudDriver" /\ call.op \in {"list_instances", "list_volumes"}
     /\ ret.outcome = "return")
        => (C9_RawListed /\ ret.value = connCalls[1].value /\ convCalls = <<>>)

\* the conversion function of the operation was called once, with `handed`,
\* and the call returns one wrapped element per raw element, in the same order
C9_Converted(handed) ==
    /\ C9_RawListed
    /\ convCalls = <<ConvCall(ConvFunction(call.op), handed)>>
    /\ ret.value.kind = "list"
    /\ Len(ret.value.items) = Len(connCalls[1].value.items)
    /\ \A i \in 1..Len(ret.value.items) :
          ret.value.items[i] = [wrap |-> DomainCls(call.op), id |-> connCalls[1].value.items[i].id]

\* C9 as stated: the Generic Driver's list_instances and list_volumes return
\* the Connection's list unconverted; each list operation of a converting
\* driver hands the raw result list of the Connection listing to the
\* Provider's conversion function and returns one wrapped element per raw
\* element, in the same order.
C9_Original ==
    /\ C9_Generic
    /\ (driver.cls \in SpecializedDrivers /\ call.op \in ListOps /\ ret.outcome = "return")
          => C9_Converted(connCalls[1].value)

\* C9 as amended: the Generic Driver's list_instances and list_volumes return
\* the Connection's list unconverted; a converting driver's list_instances and
\* list_volumes hand the raw result list to the conversion function, while its
\* list_machines and list_sizes hand over the Generic Driver's listing method
\* itself, uncalled; each returns one wrapped element per raw element, in the
\* same order.
C9_ListConversion ==
    /\ C9_Generic
    /\ (driver.cls \in SpecializedDrivers /\ call.op \in {"list_instances", "list_volumes"}
        /\ ret.outcome = "return")
          => C9_Converted(connCalls[1].value)
    /\ (driver.cls \in SpecializedDrivers /\ call.op \in {"list_machines", "list_sizes"}
        /\ ret.outcome = "return")
          => C9_Converted(MethodValue(call.op))

C9_Witness ==
    /\ driver.cls = "AWSDriver"
    /\ IsCall("list_machines")
    /\ ret.outcome = "return"
    /\ Len(ret.value.items) = 2
    /\ ret.value.items[1] # ret.value.items[2]
    /\ convCalls[1].arg.kind = "method"

\* C10: AWS create_volume calls the Connection's create_volume exactly once,
\* with the caller's positional arguments and the caller's keyword arguments
\* less 'description' (all of them when there is no 'description'), and
\* returns the primitive's result as it is.
C10_CreateVolume ==
    (driver.cls = "AWSDriver" /\ IsCall("create_volume"))
        => /\ Len(connCalls) = 1
           /\ connCalls[1].name = "create_volume"
           /\ connCalls[1].args = call.args
           /\ DOMAIN connCalls[1].kwargs = (DOMAIN call.kwargs) \ {"description"}
           /\ \A k \in DOMAIN connCalls[1].kwargs : connCalls[1].kwargs[k] = call.kwargs[k]
           /\ ("description" \notin DOMAIN call.kwargs) => connCalls[1].kwargs = call.kwargs
           /\ ret.outcome = "return" => ret.value = connCalls[1].value

C10_Witness ==
    /\ driver.cls = "AWSDriver"
    /\ IsCall("create_volume")
    /\ DOMAIN call.kwargs = {"description", "name"}
    /\ call.args # <<>>
    /\ ret.outcome = "return"
    /\ DOMAIN connCalls[1].kwargs = {"name"}

\* the block-list of a call that omits black_list holds nothing at entry
C11_DefaultStartsEmpty ==
    (IsCall("filter_machines") /\ ~blackUsed.given) => blackUsed.atEntry = <<>>

\* a list passed as black_list holds at exit what it held at entry
C11_CallerListUnchanged ==
    (IsCall("filter_machines") /\ blackUsed.given) => blackUsed.atExit = blackUsed.atEntry

\* C11 as stated: AWS filter_machines carries no state between calls: in every
\* call that omits black_list the block-list starts empty, and a list the
\* caller passes as black_list has the same contents after the call as before.
C11_Original == C11_DefaultStartsEmpty /\ C11_CallerListUnchanged

====
